---- MODULE Spec2Model ----
(***************************************************************************)
(* Model of split_csv_folder_90_10.py: a folder of CSV files is split     *)
(* into a training and a validation folder at 9/10 of the data rows.      *)
(*                                                                         *)
(* A path inside the input folder is a sequence of naturals: the first     *)
(* element is the one-letter base of the file name (1 = "a", 2 = "b",      *)
(* 3 = "c"; 0 = an entry whose suffix is not ".csv"), the following        *)
(* elements are the suffixes appended to the stem by main                  *)
(* (AT = "_at_or_after_cutoff", BEFORE = "_before_cutoff").  A file is     *)
(* the sequence of its parsed csv records; a record is a number that       *)
(* identifies it (100 * base + position in the original file).             *)
(***************************************************************************)
EXTENDS Integers, Sequences, FiniteSets, TLC

\* ---------------------------------------------------------------- bounds
MaxFiles == 3          \* original csv files in the input folder: a, b, c
MaxRecsFirst == 8      \* records of the first original file
MaxRecsOther == 2      \* records of each further original file
MaxRuns == 2           \* runs of main on the same folder
MaxTotal == 101        \* totals handed to compute_cutoff on its own
MaxCount == 3          \* per-file count handed to find_cutoff_location
MaxInfos == 3          \* length of the infos list handed to it
MaxLines == 4          \* records of the file handed to split_cutoff_file

\* ------------------------------------------------------------- variables
VARIABLES
    ASSUME_HEADER,        \* configuration, line 34
    MOVE_FILES,           \* configuration, line 38
    USE_CEIL_FOR_CUTOFF,  \* configuration, line 42
    dirValid,             \* INPUT_FOLDER exists and is a directory
    inputDir,             \* INPUT_FOLDER: path -> records
    trainDir,             \* "training data": path -> records
    valDir,               \* "validation data": path -> records
    dirsExist,            \* the two output folders exist
    pc,                   \* position of main
    run,                  \* number of the current run of main
    csv_files,            \* main: csv_files
    infos,                \* main: infos
    total_lines,          \* main: total_lines
    cutoff,               \* main: cutoff
    cutoff_file_idx,      \* main: cutoff_file_idx
    cutoff_line_in_file,  \* main: cutoff_line_in_file
    before_rows,          \* main: before_rows
    after_rows,           \* main: after_rows
    training_sent,        \* main: training_sent
    validation_sent,      \* main: validation_sent
    steps,                \* pipeline steps main has entered in this run
    made,                 \* what this run created on disk
    splitCalls,           \* paths split_cutoff_file was called on in this run
    abortReason,          \* why main raised, "" if it did not
    ioFailed,             \* a read or a write failed in this run
    inputAtStart,         \* INPUT_FOLDER as it was when this run started
    outAtStart,           \* the two output folders as they were then
    prev,                 \* what the previous run computed
    call,                 \* a function called on its own: name and arguments
    ret                   \* what that call returned

cfgVars == <<ASSUME_HEADER, MOVE_FILES, USE_CEIL_FOR_CUTOFF>>
diskVars == <<dirValid, inputDir, trainDir, valDir, dirsExist>>
mainVars == <<pc, run, csv_files, infos, total_lines, cutoff, cutoff_file_idx,
              cutoff_line_in_file, before_rows, after_rows, training_sent,
              validation_sent, steps, made, splitCalls, abortReason, ioFailed,
              inputAtStart, outAtStart, prev>>
callVars == <<call, ret>>
vars == <<cfgVars, diskVars, mainVars, callVars>>

\* ---------------------------------------------------------------- paths
AT == 1        \* "_at_or_after_cutoff"
BEFORE == 2    \* "_before_cutoff"

\* p.suffix.lower() == ".csv"
IsCsv(p) == p[1] # 0

\* Path ordering used by sorted(): the file names compared as strings.
\* After equal prefixes the name that ends ('.' of ".csv") sorts before a
\* name that goes on with '_', and "_a..." sorts before "_b...".
RECURSIVE PathLess(_, _)
PathLess(p, q) ==
    IF p = <<>> THEN q # <<>>
    ELSE IF q = <<>> THEN FALSE
    ELSE IF p[1] # q[1] THEN p[1] < q[1]
    ELSE PathLess(Tail(p), Tail(q))

RECURSIVE SortedPaths(_)
SortedPaths(S) ==
    IF S = {} THEN <<>>
    ELSE LET m == CHOOSE x \in S : \A y \in S \ {x} : PathLess(x, y)
         IN  <<m>> \o SortedPaths(S \ {m})

list_csv_files(folder) == SortedPaths({p \in DOMAIN folder : IsCsv(p)})

\* ---------------------------------------------------------------- files
EmptyDir == [p \in {} |-> <<>>]
WriteFile(dir, p, recs) == [x \in (DOMAIN dir) \cup {p} |-> IF x = p THEN recs ELSE dir[x]]
RemoveFile(dir, p) == [x \in (DOMAIN dir) \ {p} |-> dir[x]]

Max(a, b) == IF a >= b THEN a ELSE b
Min(a, b) == IF a <= b THEN a ELSE b

\* rows[1:] of a parsed file when assume_header and rows, else rows
DataRows(rows, assume_header) ==
    IF assume_header /\ rows # <<>> THEN Tail(rows) ELSE rows

count_data_lines(rows, assume_header) ==
    LET row_count == Len(rows)
    IN  IF assume_header /\ row_count > 0 THEN row_count - 1 ELSE row_count

\* sum(i.data_line_count for i in infos[:upto])
RECURSIVE SumCounts(_, _)
SumCounts(infs, upto) ==
    IF upto <= 0 THEN 0
    ELSE infs[upto].data_line_count + SumCounts(infs, upto - 1)

\* ------------------------------------------------------- compute_cutoff
\* variant: the rounding policy is ignored
compute_cutoff_floor_only(total) ==
    IF total <= 0 THEN 0 ELSE (9 * total) \div 10

\* raw = (9 * total) / 10; math.ceil(raw) or math.floor(raw)
compute_cutoff(total) ==
    IF total <= 0 THEN 0
    ELSE IF USE_CEIL_FOR_CUTOFF THEN (9 * total + 9) \div 10
         ELSE (9 * total) \div 10

\* ------------------------------------------------- find_cutoff_location
\* The result is <<file_index, line_in_file>> with file_index counted from 0
\* as in the source; infos[-1] of an empty list raises IndexError.
IndexError == <<"IndexError">>

\* variant: the loop tests running + count > cutoff
RECURSIVE CutoffWalkStrict(_, _, _, _)
CutoffWalkStrict(infs, cut, i, running) ==
    IF i > Len(infs)
    THEN IF infs = <<>> THEN IndexError
         ELSE <<Len(infs) - 1, infs[Len(infs)].data_line_count>>
    ELSE IF running + infs[i].data_line_count > cut
         THEN <<i - 1, cut - running>>
         ELSE CutoffWalkStrict(infs, cut, i + 1, running + infs[i].data_line_count)

RECURSIVE CutoffWalk(_, _, _, _)
CutoffWalk(infs, cut, i, running) ==
    IF i > Len(infs)
    THEN IF infs = <<>> THEN IndexError
         ELSE <<Len(infs) - 1, infs[Len(infs)].data_line_count>>
    ELSE IF running + infs[i].data_line_count >= cut
         THEN <<i - 1, cut - running>>
         ELSE CutoffWalk(infs, cut, i + 1, running + infs[i].data_line_count)

\* variant: a cutoff beyond the total is located one past the last row
find_cutoff_location_past_end(infs, cut) ==
    IF cut <= 0 THEN <<-1, -1>>
    ELSE IF infs # <<>> /\ cut > SumCounts(infs, Len(infs))
         THEN <<Len(infs) - 1, infs[Len(infs)].data_line_count + 1>>
         ELSE CutoffWalk(infs, cut, 1, 0)

find_cutoff_location(infs, cut) ==
    IF cut <= 0 THEN <<-1, -1>> ELSE CutoffWalk(infs, cut, 1, 0)

\* ---------------------------------------------------- split_cutoff_file
\* variant: the clamp stops at n instead of n + 1
split_cutoff_file_clamp_n(rows, assume_header, line_in_file) ==
    LET header == IF assume_header /\ rows # <<>> THEN <<rows[1]>> ELSE <<>>
        data_rows == DataRows(rows, assume_header)
        n == Len(data_rows)
        k == Max(1, Min(line_in_file, n))
        before == SubSeq(data_rows, 1, Max(0, k - 1))
        after == SubSeq(data_rows, Max(0, k - 1) + 1, n)
    IN  [header |-> header, before |-> before, after |-> after]

\* variant: the row at the cutoff line goes to the before file
split_cutoff_file_through_k(rows, assume_header, line_in_file) ==
    LET header == IF assume_header /\ rows # <<>> THEN <<rows[1]>> ELSE <<>>
        data_rows == DataRows(rows, assume_header)
        n == Len(data_rows)
        k == Max(1, Min(line_in_file, n + 1))
        before == SubSeq(data_rows, 1, Min(k, n))
        after == SubSeq(data_rows, Min(k, n) + 1, n)
    IN  [header |-> header, before |-> before, after |-> after]

\* The records of the two files it writes, and the header it reuses
\* (<<>> when header is None).
split_cutoff_file(rows, assume_header, line_in_file) ==
    LET header == IF assume_header /\ rows # <<>> THEN <<rows[1]>> ELSE <<>>
        data_rows == DataRows(rows, assume_header)
        n == Len(data_rows)
        k == Max(1, Min(line_in_file, n + 1))
        before == SubSeq(data_rows, 1, Max(0, k - 1))
        after == SubSeq(data_rows, Max(0, k - 1) + 1, n)
    IN  [header |-> header, before |-> before, after |-> after]

\* ======================================================================
\* main
\* ======================================================================
NoPrev == [done |-> FALSE, copy |-> FALSE, csv_files |-> <<>>, total_lines |-> 0,
           cutoff |-> 0, cutoff_file_idx |-> -1, cutoff_line_in_file |-> -1,
           training_sent |-> <<>>, validation_sent |-> <<>>]

\* The locals of main before its first statement.
MainStart(r, folder, out, p) ==
    /\ pc = "start"
    /\ run = r
    /\ csv_files = <<>>
    /\ infos = <<>>
    /\ total_lines = 0
    /\ cutoff = 0
    /\ cutoff_file_idx = -1
    /\ cutoff_line_in_file = -1
    /\ before_rows = 0
    /\ after_rows = 0
    /\ training_sent = <<>>
    /\ validation_sent = <<>>
    /\ steps = <<>>
    /\ made = {}
    /\ splitCalls = <<>>
    /\ abortReason = ""
    /\ ioFailed = FALSE
    /\ inputAtStart = folder
    /\ outAtStart = out
    /\ prev = p

\* ======================================================================
\* The functions called on their own, with arguments drawn from bounded
\* sets (specification FnSpec).
\* ======================================================================
NoCall == [op |-> "idle", total |-> 0, infos |-> <<>>, cutoff |-> 0,
           rows |-> <<>>, line |-> 0]
NoRet == [cutoff |-> 0, loc |-> <<-1, -1>>, header |-> <<>>,
          before |-> <<>>, after |-> <<>>]

\* A file of base b with r records, numbered in order.
FileOf(b, r) == [j \in 1..r |-> 100 * b + j]

\* infos lists of bounded length and counts: infos[i].path = <<i>>.
InfosOfCounts(counts) ==
    [i \in 1..Len(counts) |-> [path |-> <<i>>, data_line_count |-> counts[i]]]
CountLists == UNION {[1..len -> 0..MaxCount] : len \in 0..MaxInfos}

CallComputeCutoff ==
    /\ call.op = "idle"
    /\ \E total \in 0..MaxTotal :
        /\ call' = [NoCall EXCEPT !.op = "compute_cutoff", !.total = total]
        /\ ret' = [NoRet EXCEPT !.cutoff = compute_cutoff(total)]
    /\ UNCHANGED <<cfgVars, diskVars, mainVars>>

CallFindCutoffLocation ==
    /\ call.op = "idle"
    /\ \E counts \in CountLists :
        LET infs == InfosOfCounts(counts)
        IN  \E cut \in -1..(SumCounts(infs, Len(infs)) + 2) :
              /\ call' = [NoCall EXCEPT !.op = "find_cutoff_location",
                                        !.infos = infs, !.cutoff = cut]
              /\ ret' = [NoRet EXCEPT !.loc = find_cutoff_location(infs, cut)]
    /\ UNCHANGED <<cfgVars, diskVars, mainVars>>

CallSplitCutoffFile ==
    /\ call.op = "idle"
    /\ \E r \in 0..MaxLines, line \in -2..(MaxLines + 3) :
        LET rows == FileOf(1, r)
            s == split_cutoff_file(rows, ASSUME_HEADER, line)
        IN  /\ call' = [NoCall EXCEPT !.op = "split_cutoff_file",
                                      !.rows = rows, !.line = line]
            /\ ret' = [NoRet EXCEPT !.header = s.header, !.before = s.before,
                                    !.after = s.after]
    /\ UNCHANGED <<cfgVars, diskVars, mainVars>>

\* find_cutoff_location followed by split_cutoff_file on infos[file_index],
\* as main chains them (lines 207-238), for any positive cutoff.
CallLocateThenSplit ==
    /\ call.op = "idle"
    /\ \E counts \in CountLists \ {<<>>} :
        LET infs == InfosOfCounts(counts)
        IN  \E cut \in 1..(SumCounts(infs, Len(infs)) + 2) :
              LET loc == find_cutoff_location(infs, cut)
                  cnt == infs[loc[1] + 1].data_line_count
                  rows == FileOf(loc[1] + 1, IF ASSUME_HEADER THEN cnt + 1 ELSE cnt)
                  s == split_cutoff_file(rows, ASSUME_HEADER, loc[2])
              IN  /\ call' = [NoCall EXCEPT !.op = "locate_then_split",
                                  !.infos = infs, !.cutoff = cut,
                                  !.rows = rows, !.line = loc[2]]
                  /\ ret' = [NoRet EXCEPT !.loc = loc, !.header = s.header,
                                  !.before = s.before, !.after = s.after]
    /\ UNCHANGED <<cfgVars, diskVars, mainVars>>

FnInit ==
    /\ ASSUME_HEADER \in BOOLEAN
    /\ USE_CEIL_FOR_CUTOFF \in BOOLEAN
    /\ MOVE_FILES = FALSE
    /\ dirValid = TRUE
    /\ inputDir = EmptyDir
    /\ trainDir = EmptyDir
    /\ valDir = EmptyDir
    /\ dirsExist = FALSE
    /\ MainStart(1, EmptyDir, <<EmptyDir, EmptyDir>>, NoPrev)
    /\ call = NoCall
    /\ ret = NoRet

FnNext ==
    \/ CallComputeCutoff
    \/ CallFindCutoffLocation
    \/ CallSplitCutoffFile
    \/ CallLocateThenSplit

FnSpec == FnInit /\ [][FnNext]_vars

\* The input folders main is started on: the first n of a.csv, b.csv, c.csv,
\* each with its records, and possibly an entry that is not a csv file.
OriginalFolders ==
    UNION {
      { [p \in {<<b>> : b \in 1..n} \cup other |->
            IF p[1] = 0 THEN <<>> ELSE FileOf(p[1], recs[p[1]])] :
        recs \in [1..n -> 0..MaxRecsFirst] }
      : n \in 0..MaxFiles, other \in {{}, {<<0>>}} }

FolderInBounds(folder) ==
    \A p \in DOMAIN folder : p[1] > 1 => Len(folder[p]) <= MaxRecsOther

Init ==
    /\ ASSUME_HEADER \in BOOLEAN
    /\ MOVE_FILES \in BOOLEAN
    /\ USE_CEIL_FOR_CUTOFF \in BOOLEAN
    /\ dirValid \in BOOLEAN
    /\ inputDir \in IF dirValid
                     THEN {f \in OriginalFolders : FolderInBounds(f)}
                     ELSE {EmptyDir}
    /\ trainDir = EmptyDir
    /\ valDir = EmptyDir
    /\ dirsExist = FALSE
    /\ MainStart(1, inputDir, <<EmptyDir, EmptyDir>>, NoPrev)
    /\ call = NoCall
    /\ ret = NoRet

Abort(reason) ==
    /\ pc' = "aborted"
    /\ abortReason' = reason

\* lines 180-182
CheckInputFolder ==
    /\ pc = "start"
    /\ IF ~dirValid
       THEN Abort("config")
       ELSE pc' = "list" /\ UNCHANGED abortReason
    /\ UNCHANGED <<cfgVars, diskVars, callVars, run, csv_files, infos,
                   total_lines, cutoff, cutoff_file_idx, cutoff_line_in_file,
                   before_rows, after_rows, training_sent, validation_sent,
                   steps, made, splitCalls, ioFailed, inputAtStart,
                   outAtStart, prev>>

\* lines 184-186
ListCsvFiles ==
    /\ pc = "list"
    /\ csv_files' = list_csv_files(inputDir)
    /\ IF csv_files' = <<>>
       THEN Abort("no_csv")
       ELSE pc' = "count" /\ UNCHANGED abortReason
    /\ UNCHANGED <<cfgVars, diskVars, callVars, run, infos,
                   total_lines, cutoff, cutoff_file_idx, cutoff_line_in_file,
                   before_rows, after_rows, training_sent, validation_sent,
                   steps, made, splitCalls, ioFailed, inputAtStart,
                   outAtStart, prev>>

\* lines 188-193: the counting loop; opening or parsing a file may fail
CountLines ==
    /\ pc = "count"
    /\ steps' = Append(steps, "count")
    /\ \E ok \in BOOLEAN :
        IF ok
        THEN /\ infos' = [i \in 1..Len(csv_files) |->
                            [path |-> csv_files[i],
                             data_line_count |->
                                count_data_lines(inputDir[csv_files[i]], ASSUME_HEADER)]]
             /\ pc' = "totals"
             /\ UNCHANGED <<abortReason, ioFailed>>
        ELSE /\ Abort("read_error")
             /\ ioFailed' = TRUE
             /\ UNCHANGED infos
    /\ UNCHANGED <<cfgVars, diskVars, callVars, run, csv_files,
                   total_lines, cutoff, cutoff_file_idx, cutoff_line_in_file,
                   before_rows, after_rows, training_sent, validation_sent,
                   made, splitCalls, inputAtStart, outAtStart, prev>>

\* lines 195-196
ComputeTotals ==
    /\ pc = "totals"
    /\ total_lines' = SumCounts(infos, Len(infos))
    /\ cutoff' = compute_cutoff(total_lines')
    /\ steps' = Append(steps, "cutoff")
    /\ pc' = "zero_check"
    /\ UNCHANGED <<cfgVars, diskVars, callVars, run, csv_files, infos,
                   cutoff_file_idx, cutoff_line_in_file,
                   before_rows, after_rows, training_sent, validation_sent,
                   made, splitCalls, abortReason, ioFailed, inputAtStart,
                   outAtStart, prev>>

\* variant: a total of 0 is not rejected here
ZeroCheckSkipped ==
    /\ pc = "zero_check"
    /\ pc' = "locate"
    /\ UNCHANGED <<cfgVars, diskVars, callVars, run, csv_files, infos,
                   total_lines, cutoff, cutoff_file_idx, cutoff_line_in_file,
                   before_rows, after_rows, training_sent, validation_sent,
                   steps, made, splitCalls, abortReason, ioFailed,
                   inputAtStart, outAtStart, prev>>

\* lines 204-205
ZeroCheck ==
    /\ pc = "zero_check"
    /\ IF total_lines = 0
       THEN Abort("zero_rows")
       ELSE pc' = "locate" /\ UNCHANGED abortReason
    /\ UNCHANGED <<cfgVars, diskVars, callVars, run, csv_files, infos,
                   total_lines, cutoff, cutoff_file_idx, cutoff_line_in_file,
                   before_rows, after_rows, training_sent, validation_sent,
                   steps, made, splitCalls, ioFailed, inputAtStart,
                   outAtStart, prev>>

\* lines 207-209
Locate ==
    /\ pc = "locate"
    /\ LET loc == find_cutoff_location(infos, cutoff)
       IN  /\ cutoff_file_idx' = loc[1]
           /\ cutoff_line_in_file' = loc[2]
    /\ steps' = Append(steps, "locate")
    /\ IF cutoff_file_idx' < 0
       THEN Abort("cutoff_zero")
       ELSE pc' = "mkdirs" /\ UNCHANGED abortReason
    /\ UNCHANGED <<cfgVars, diskVars, callVars, run, csv_files, infos,
                   total_lines, cutoff,
                   before_rows, after_rows, training_sent, validation_sent,
                   made, splitCalls, ioFailed, inputAtStart, outAtStart, prev>>

\* lines 220-224: ensure_clean_dir on both output folders
EnsureDirs ==
    /\ pc = "mkdirs"
    /\ dirsExist' = TRUE
    /\ made' = made \cup (IF dirsExist THEN {} ELSE {"dirs"})
    /\ pc' = "split"
    /\ UNCHANGED <<cfgVars, dirValid, inputDir, trainDir, valDir, callVars,
                   run, csv_files, infos, total_lines, cutoff, cutoff_file_idx,
                   cutoff_line_in_file, before_rows, after_rows, training_sent,
                   validation_sent, steps, splitCalls, abortReason, ioFailed,
                   inputAtStart, outAtStart, prev>>

before_path(cutoff_file) == Append(cutoff_file, BEFORE)
after_path(cutoff_file) == Append(cutoff_file, AT)

\* lines 227-238: split_cutoff_file on infos[i], writing both derived files
\* into the input folder.  Reading the file, creating the first output or
\* creating the second output may fail.
SplitFileAt(i) ==
    LET cutoff_file == infos[i].path
        s == split_cutoff_file(inputDir[cutoff_file], ASSUME_HEADER,
                               cutoff_line_in_file)
        withBefore == WriteFile(inputDir, before_path(cutoff_file),
                                s.header \o s.before)
        withBoth == WriteFile(withBefore, after_path(cutoff_file),
                              s.header \o s.after)
    IN  /\ pc = "split"
        /\ splitCalls' = Append(splitCalls, cutoff_file)
        /\ steps' = Append(steps, "split")
        /\ \E outcome \in {"ok", "read_error", "write_before_error",
                           "write_after_error"} :
            CASE outcome = "ok" ->
                    /\ inputDir' = withBoth
                    /\ before_rows' = Len(s.before)
                    /\ after_rows' = Len(s.after)
                    /\ made' = made \cup {"before", "after"}
                    /\ pc' = "transfer_originals_before"
                    /\ UNCHANGED <<abortReason, ioFailed>>
              [] outcome = "read_error" ->
                    /\ Abort("read_error")
                    /\ ioFailed' = TRUE
                    /\ UNCHANGED <<inputDir, before_rows, after_rows, made>>
              [] outcome = "write_before_error" ->
                    /\ Abort("write_error")
                    /\ ioFailed' = TRUE
                    /\ UNCHANGED <<inputDir, before_rows, after_rows, made>>
              [] outcome = "write_after_error" ->
                    /\ inputDir' = withBefore
                    /\ made' = made \cup {"before"}
                    /\ Abort("write_error")
                    /\ ioFailed' = TRUE
                    /\ UNCHANGED <<before_rows, after_rows>>
        /\ UNCHANGED <<cfgVars, dirValid, trainDir, valDir, dirsExist, callVars,
                       run, csv_files, infos, total_lines, cutoff,
                       cutoff_file_idx, cutoff_line_in_file, training_sent,
                       validation_sent, inputAtStart, outAtStart, prev>>

\* variant: the last file is split whatever the location
SplitLastFile == SplitFileAt(Len(infos))

\* line 211: cutoff_info = infos[cutoff_file_idx]
SplitCutoffFile == SplitFileAt(cutoff_file_idx + 1)

\* transfer_file for each path of files in turn, each followed by the append
\* to the sent list.  st = [src, dest, sent, failed]; shutil raises when the
\* source file is not there.
RECURSIVE TransferAll(_, _, _)
TransferAll(files, move, st) ==
    IF files = <<>> \/ st.failed THEN st
    ELSE LET f == Head(files)
         IN  IF f \notin DOMAIN st.src
             THEN [st EXCEPT !.failed = TRUE]
             ELSE TransferAll(Tail(files), move,
                    [src |-> IF move THEN RemoveFile(st.src, f) ELSE st.src,
                     dest |-> WriteFile(st.dest, f, st.src[f]),
                     sent |-> Append(st.sent, f),
                     failed |-> FALSE])

originals_before == [i \in 1..cutoff_file_idx |-> infos[i].path]
originals_after ==
    [i \in 1..(Len(infos) - cutoff_file_idx - 1) |-> infos[cutoff_file_idx + 1 + i].path]

TransferStep(files, toTraining, nextPc) ==
    LET st == TransferAll(files, MOVE_FILES,
                [src |-> inputDir,
                 dest |-> IF toTraining THEN trainDir ELSE valDir,
                 sent |-> IF toTraining THEN training_sent ELSE validation_sent,
                 failed |-> FALSE])
    IN  /\ inputDir' = st.src
        /\ IF toTraining
           THEN trainDir' = st.dest /\ training_sent' = st.sent
                /\ UNCHANGED <<valDir, validation_sent>>
           ELSE valDir' = st.dest /\ validation_sent' = st.sent
                /\ UNCHANGED <<trainDir, training_sent>>
        /\ IF st.failed
           THEN Abort("transfer_error") /\ ioFailed' = TRUE
           ELSE pc' = nextPc /\ UNCHANGED <<abortReason, ioFailed>>
        /\ UNCHANGED <<cfgVars, dirValid, dirsExist, callVars, run, csv_files,
                       infos, total_lines, cutoff, cutoff_file_idx,
                       cutoff_line_in_file, before_rows, after_rows, made,
                       splitCalls, inputAtStart, outAtStart, prev>>

\* lines 245, 259-261
TransferOriginalsBefore ==
    /\ pc = "transfer_originals_before"
    /\ steps' = Append(steps, "transfer")
    /\ TransferStep(originals_before, TRUE, "transfer_originals_after")

\* lines 246, 264-266
TransferOriginalsAfter ==
    /\ pc = "transfer_originals_after"
    /\ UNCHANGED steps
    /\ TransferStep(originals_after, FALSE, "transfer_before_split")

\* lines 269-270
TransferBeforeSplit ==
    /\ pc = "transfer_before_split"
    /\ UNCHANGED steps
    /\ TransferStep(<<before_path(infos[cutoff_file_idx + 1].path)>>, TRUE,
                    "transfer_after_split")

\* lines 272-273, then the summary
TransferAfterSplit ==
    /\ pc = "transfer_after_split"
    /\ UNCHANGED steps
    /\ TransferStep(<<after_path(infos[cutoff_file_idx + 1].path)>>, FALSE, "done")

\* The script is run again on the same folder with the same configuration.
RunAgain ==
    /\ pc \in {"done", "aborted"}
    /\ run < MaxRuns
    /\ pc' = "start"
    /\ run' = run + 1
    /\ csv_files' = <<>>
    /\ infos' = <<>>
    /\ total_lines' = 0
    /\ cutoff' = 0
    /\ cutoff_file_idx' = -1
    /\ cutoff_line_in_file' = -1
    /\ before_rows' = 0
    /\ after_rows' = 0
    /\ training_sent' = <<>>
    /\ validation_sent' = <<>>
    /\ steps' = <<>>
    /\ made' = {}
    /\ splitCalls' = <<>>
    /\ abortReason' = ""
    /\ ioFailed' = FALSE
    /\ inputAtStart' = inputDir
    /\ outAtStart' = <<trainDir, valDir>>
    /\ prev' = IF pc = "done"
               THEN [done |-> TRUE, copy |-> ~MOVE_FILES, csv_files |-> csv_files,
                     total_lines |-> total_lines, cutoff |-> cutoff,
                     cutoff_file_idx |-> cutoff_file_idx,
                     cutoff_line_in_file |-> cutoff_line_in_file,
                     training_sent |-> training_sent,
                     validation_sent |-> validation_sent]
               ELSE NoPrev
    /\ UNCHANGED <<cfgVars, diskVars, callVars>>

Next ==
    \/ CheckInputFolder
    \/ ListCsvFiles
    \/ CountLines
    \/ ComputeTotals
    \/ ZeroCheck
    \/ Locate
    \/ EnsureDirs
    \/ SplitCutoffFile
    \/ TransferOriginalsBefore
    \/ TransferOriginalsAfter
    \/ TransferBeforeSplit
    \/ TransferAfterSplit
    \/ RunAgain

Spec == Init /\ [][Next]_vars

\* ======================================================================
\* Properties of the functions (checked under FnSpec)
\* ======================================================================

\* C2: compute_cutoff(T) is floor(9T/10) under the floor policy and
\* ceiling(9T/10) under the ceil policy, lies in 0..T, and is 0 for T = 0;
\* cutoff(100, floor) = 90, cutoff(101, floor) = 90, cutoff(101, ceil) = 91,
\* cutoff(10, floor) = 9.
C2_CutoffIsRoundedNineTenths ==
    call.op = "compute_cutoff" =>
        LET T == call.total
            c == ret.cutoff
        IN  /\ USE_CEIL_FOR_CUTOFF => (10 * c >= 9 * T /\ 10 * (c - 1) < 9 * T)
            /\ ~USE_CEIL_FOR_CUTOFF => (10 * c <= 9 * T /\ 10 * (c + 1) > 9 * T)
            /\ 0 <= c /\ c <= T
            /\ (T = 0 => c = 0)
            /\ (T = 100 => c = 90)
            /\ (T = 101 => c = IF USE_CEIL_FOR_CUTOFF THEN 91 ELSE 90)
            /\ (T = 10 => c = 9)

C2_Witness ==
    /\ call.op = "compute_cutoff"
    /\ call.total = 101
    /\ USE_CEIL_FOR_CUTOFF
    /\ ret.cutoff = 91

\* C3: for 1 <= cutoff <= sum of the counts find_cutoff_location returns the
\* only file index i whose cumulative count before it is < cutoff and through
\* it is >= cutoff, with line_in_file = cutoff - (cumulative count before i),
\* which lies in 1..count of file i; for cutoff <= 0 it returns (-1, -1).
C3_LocatesTheUniqueFile ==
    call.op = "find_cutoff_location" =>
        LET infs == call.infos
            c == call.cutoff
        IN  /\ (c <= 0 => ret.loc = <<-1, -1>>)
            /\ (1 <= c /\ c <= SumCounts(infs, Len(infs))) =>
                 /\ Len(ret.loc) = 2
                 /\ LET i == ret.loc[1] + 1
                        r == ret.loc[2]
                    IN  /\ i \in 1..Len(infs)
                        /\ SumCounts(infs, i - 1) < c
                        /\ SumCounts(infs, i) >= c
                        /\ \A j \in 1..Len(infs) :
                              (SumCounts(infs, j - 1) < c /\ SumCounts(infs, j) >= c)
                                  => j = i
                        /\ r = c - SumCounts(infs, i - 1)
                        /\ 1 <= r
                        /\ r <= infs[i].data_line_count

\* a zero-row file right before the located file
C3_Witness ==
    /\ call.op = "find_cutoff_location"
    /\ Len(call.infos) = 3
    /\ call.infos[1].data_line_count = 2
    /\ call.infos[2].data_line_count = 0
    /\ call.infos[3].data_line_count = 3
    /\ call.cutoff = 3
    /\ ret.loc = <<2, 1>>

\* C4: with n data rows and k = max(1, min(line, n + 1)), split_cutoff_file
\* writes data rows 1..k-1 to the before file and k..n to the after file:
\* the counts add up to n and before followed by after is the data rows.
C4_SplitKeepsEveryRowOnce ==
    call.op = "split_cutoff_file" =>
        LET data == DataRows(call.rows, ASSUME_HEADER)
            n == Len(data)
            k == IF call.line < 1 THEN 1
                 ELSE IF call.line > n + 1 THEN n + 1 ELSE call.line
        IN  /\ Len(ret.before) = k - 1
            /\ \A j \in 1..(k - 1) : ret.before[j] = data[j]
            /\ Len(ret.after) = n - k + 1
            /\ \A j \in 1..(n - k + 1) : ret.after[j] = data[k - 1 + j]
            /\ Len(ret.before) + Len(ret.after) = n
            /\ ret.before \o ret.after = data

\* a line beyond n + 1, on a file that has data rows
C4_Witness ==
    /\ call.op = "split_cutoff_file"
    /\ Len(DataRows(call.rows, ASSUME_HEADER)) = 2
    /\ call.line = 5
    /\ Len(ret.before) = 2
    /\ ret.after = <<>>

\* C8 as stated: for a cutoff above the sum of the counts the last file's
\* index is returned with line_in_file = its count, and splitting it there
\* leaves the whole last file on the before side.
C8_WholeLastFileBefore ==
    (call.op = "locate_then_split"
        /\ call.cutoff > SumCounts(call.infos, Len(call.infos))) =>
        LET n == call.infos[Len(call.infos)].data_line_count
        IN  /\ ret.loc = <<Len(call.infos) - 1, n>>
            /\ Len(ret.before) = n
            /\ Len(ret.after) = 0

\* C8 amended: for a cutoff above the sum of the counts the last file's
\* index is returned with line_in_file = its count n, and splitting it there
\* puts data rows 1..n-1 on the before side and the last data row on the
\* after side (both sides are empty when n = 0).
C8_LastRowOfLastFileAfter ==
    (call.op = "locate_then_split"
        /\ call.cutoff > SumCounts(call.infos, Len(call.infos))) =>
        LET n == call.infos[Len(call.infos)].data_line_count
            data == DataRows(call.rows, ASSUME_HEADER)
        IN  /\ ret.loc = <<Len(call.infos) - 1, n>>
            /\ Len(data) = n
            /\ ret.before = (IF n = 0 THEN <<>> ELSE SubSeq(data, 1, n - 1))
            /\ ret.after = (IF n = 0 THEN <<>> ELSE <<data[n]>>)
            /\ Len(ret.before) = (IF n = 0 THEN 0 ELSE n - 1)
            /\ Len(ret.after) = (IF n = 0 THEN 0 ELSE 1)

C8_Witness ==
    /\ call.op = "locate_then_split"
    /\ Len(call.infos) = 2
    /\ call.cutoff = SumCounts(call.infos, 2) + 1
    /\ call.infos[2].data_line_count = 3
    /\ ret.loc = <<1, 3>>
    /\ Len(ret.before) = 2
    /\ Len(ret.after) = 1

\* ======================================================================
\* Properties of main (checked under Spec)
\* ======================================================================
AfterSplit == {"transfer_originals_before", "transfer_originals_after",
               "transfer_before_split", "transfer_after_split", "done"}

Range(seq) == {seq[i] : i \in 1..Len(seq)}

\* the data rows of the files paths, read from dir one after the other
RECURSIVE RowsOf(_, _)
RowsOf(dir, paths) ==
    IF paths = <<>> THEN <<>>
    ELSE DataRows(dir[Head(paths)], ASSUME_HEADER) \o RowsOf(dir, Tail(paths))

\* C1 as stated: in a completed run the data rows assigned to training (the
\* counts of the files before the cutoff file plus before_rows) number cutoff.
C1_TrainingRowsEqualCutoff ==
    pc = "done" =>
        SumCounts(infos, cutoff_file_idx) + before_rows = cutoff

\* C1 amended: in a completed run the data rows assigned to training (the
\* counts of the files before the cutoff file plus before_rows) number
\* cutoff - 1: the row at the cutoff index is the first validation row.
C1_TrainingRowsEqualCutoffMinusOne ==
    pc = "done" =>
        /\ SumCounts(infos, cutoff_file_idx) + before_rows = cutoff - 1
        /\ Len(RowsOf(trainDir, training_sent)) = cutoff - 1
        /\ before_rows + after_rows = infos[cutoff_file_idx + 1].data_line_count

\* the 40/40/40 shape of the spec at small scale: the cutoff file is the
\* third one and is cut in its middle
C1_Witness ==
    /\ pc = "done"
    /\ cutoff_file_idx >= 1
    /\ before_rows >= 1
    /\ after_rows >= 1
    /\ total_lines = 10
    /\ cutoff = 9

\* C5 as stated: in a completed run every original file before the cutoff
\* file is sent to training only, every original file after it to validation
\* only, the before file to training, the at-or-after file to validation,
\* and the cutoff file itself to neither.
C5_PartitionByPosition ==
    pc = "done" =>
        LET cutoff_file == infos[cutoff_file_idx + 1].path
            T == Range(training_sent)
            V == Range(validation_sent)
        IN  /\ \A i \in 1..Len(infos) :
                /\ i < cutoff_file_idx + 1 => (infos[i].path \in T /\ infos[i].path \notin V)
                /\ i > cutoff_file_idx + 1 => (infos[i].path \in V /\ infos[i].path \notin T)
            /\ before_path(cutoff_file) \in T
            /\ after_path(cutoff_file) \in V
            /\ cutoff_file \notin T \cup V

AbortsBeforeTransfer == {"config", "no_csv", "read_error", "zero_rows",
                         "cutoff_zero", "write_error"}
PipelineOrder == <<"count", "cutoff", "locate", "split", "transfer">>

C7_OrderedStepsAndCleanAbort ==
    /\ Len(steps) <= Len(PipelineOrder)
    /\ steps = SubSeq(PipelineOrder, 1, Len(steps))
    /\ (pc = "aborted" /\ abortReason \in AbortsBeforeTransfer) =>
            /\ training_sent = <<>>
            /\ validation_sent = <<>>
            /\ <<trainDir, valDir>> = outAtStart
            /\ Len(steps) < Len(PipelineOrder)
    /\ (pc \in {"locate", "mkdirs", "split", "aborted"} \cup AfterSplit
           /\ Len(steps) >= 2 /\ total_lines = 0) =>
            /\ pc = "aborted"
            /\ abortReason = "zero_rows"
            /\ steps = <<"count", "cutoff">>
            /\ made = {}
            /\ inputDir = inputAtStart
            /\ splitCalls = <<>>
    /\ (training_sent # <<>> \/ validation_sent # <<>>) =>
            ({"before", "after"} \subseteq made /\ Len(steps) = 5)

C7_Witness ==
    /\ pc = "aborted"
    /\ abortReason = "zero_rows"
    /\ run = 1
    /\ Len(csv_files) = 2
    /\ ~dirsExist

\* C9 as stated: in a completed run the data rows of the training partition
\* followed by those of the validation partition (the at-or-after file, then
\* the files after the cutoff file) are the data rows of all input files in
\* sorted order, each once, and number total_lines.
C9_EveryRowInOnePartition ==
    pc = "done" =>
        LET train == RowsOf(trainDir, training_sent)
            n == Len(validation_sent)
            val == RowsOf(valDir, <<validation_sent[n]>>)
                     \o RowsOf(valDir, SubSeq(validation_sent, 1, n - 1))
        IN  /\ Len(train) + Len(val) = total_lines
            /\ train \o val = RowsOf(inputAtStart, csv_files)

\* C10 as stated: a run in copy mode that follows a completed run on the
\* same folder lists the same files and computes the same total, cutoff,
\* location and assignment as that run.
C10_SecondCopyRunRepeatsFirst ==
    (prev.done /\ prev.copy) =>
        /\ pc \notin {"start", "list"} => csv_files = prev.csv_files
        /\ pc = "done" =>
            /\ total_lines = prev.total_lines
            /\ cutoff = prev.cutoff
            /\ cutoff_file_idx = prev.cutoff_file_idx
            /\ cutoff_line_in_file = prev.cutoff_line_in_file
            /\ training_sent = prev.training_sent
            /\ validation_sent = prev.validation_sent

====
